---------------------------- MODULE Spec2Model ----------------------------
(***************************************************************************)
(* A model of nexus_api_downloaderV1.2.py: the game-domain normaliser, the *)
(* manifest extractor, the link resolver, the streaming downloader and the *)
(* command-line driver that sequences them.                                *)
(*                                                                         *)
(* Python strings are sequences of one-character strings, so that lower(), *)
(* strip(), int() and the substring tests are computed, not assumed.       *)
(* Python values are tagged records (StrV, IntV, None, Absent).            *)
(***************************************************************************)
EXTENDS Integers, Sequences, FiniteSets, TLC

VARIABLES
    \* normalize_game_domain applied once and then to its own result
    normIn, normOut, normAgain, normPc,
    \* one call of get_nexus_download_url
    rsGame, rsResponse, rsResult, rsPc,
    \* one call of parse_wabbajack_json
    pjManifest, pjFilter, pjResult, pjPc,
    \* calls of download_file on a downloads directory
    dlBefore, dlFiles, dlName, dlOutcome, dlResult, dlCalls,
    \* the __main__ driver
    pc, exitCode, exitReason, downloadables, selection, queue, attempted,
    files, prompts, raisedBy, allDone, picked, cycles

normVars == <<normIn, normOut, normAgain, normPc>>
rsVars   == <<rsGame, rsResponse, rsResult, rsPc>>
pjVars   == <<pjManifest, pjFilter, pjResult, pjPc>>
dlVars   == <<dlBefore, dlFiles, dlName, dlOutcome, dlResult, dlCalls>>
mainVars == <<pc, exitCode, exitReason, downloadables, selection, queue,
              attempted, files, prompts, raisedBy, allDone, picked, cycles>>
vars     == <<normVars, rsVars, pjVars, dlVars, mainVars>>

---------------------------------------------------------------------------
(* Strings *)

UpperLetters ==
    <<"A","B","C","D","E","F","G","H","I","J","K","L","M",
      "N","O","P","Q","R","S","T","U","V","W","X","Y","Z">>

LowerLetters ==
    <<"a","b","c","d","e","f","g","h","i","j","k","l","m",
      "n","o","p","q","r","s","t","u","v","w","x","y","z">>

\* str.lower() on one character
LowerChar(c) ==
    IF \E i \in DOMAIN UpperLetters : UpperLetters[i] = c
    THEN LowerLetters[CHOOSE i \in DOMAIN UpperLetters : UpperLetters[i] = c]
    ELSE c

\* str.upper() on one character (used only to build mixed-case inputs)
UpperChar(c) ==
    IF \E i \in DOMAIN LowerLetters : LowerLetters[i] = c
    THEN UpperLetters[CHOOSE i \in DOMAIN LowerLetters : LowerLetters[i] = c]
    ELSE c

\* str.lower()
Lower(s) == [i \in DOMAIN s |-> LowerChar(s[i])]

Upper(s) == [i \in DOMAIN s |-> UpperChar(s[i])]

Capitalize(s) == [i \in DOMAIN s |-> IF i = 1 THEN UpperChar(s[i]) ELSE s[i]]

AltCase(s) == [i \in DOMAIN s |-> IF i % 2 = 0 THEN UpperChar(s[i]) ELSE s[i]]

\* Python's "sub in s" on strings
Contains(sub, s) ==
    \E i \in 0..(Len(s) - Len(sub)) : SubSeq(s, i + 1, i + Len(sub)) = sub

---------------------------------------------------------------------------
(* Python values: a string, an integer, None, or a key that is absent *)

StrV(s) == [t |-> "str", s |-> s, n |-> 0]

IntV(n) == [t |-> "int", s |-> <<>>, n |-> n]

None == [t |-> "none", s |-> <<>>, n |-> 0]

Absent == [t |-> "absent", s |-> <<>>, n |-> 0]

\* dict.get(key): an absent key reads as None
Get(v) == IF v.t = "absent" THEN None ELSE v

\* dict.get(key, default)
GetOr(v, default) == IF v.t = "absent" THEN default ELSE v

\* Python truthiness
Truthy(v) ==
    CASE v.t = "str" -> v.s # <<>>
      [] v.t = "int" -> v.n # 0
      [] OTHER -> FALSE

---------------------------------------------------------------------------
(* normalize_game_domain *)

skyrimse == <<"s", "k", "y", "r", "i", "m", "s", "e">>

skyrimspecialedition == <<"s", "k", "y", "r", "i", "m", "s", "p", "e", "c", "i", "a", "l", "e", "d", "i", "t", "i", "o", "n">>

skyrim == <<"s", "k", "y", "r", "i", "m">>

skyrimlegendaryedition == <<"s", "k", "y", "r", "i", "m", "l", "e", "g", "e", "n", "d", "a", "r", "y", "e", "d", "i", "t", "i", "o", "n">>

fallout4 == <<"f", "a", "l", "l", "o", "u", "t", "4">>

falloutnewvegas == <<"f", "a", "l", "l", "o", "u", "t", "n", "e", "w", "v", "e", "g", "a", "s">>

falloutnv == <<"f", "a", "l", "l", "o", "u", "t", "n", "v">>

\* the alias table, in the dict's insertion order
mappings ==
    << [aliases |-> {skyrimse, skyrimspecialedition}, canonical_name |-> skyrimspecialedition],
       [aliases |-> {skyrim, skyrimlegendaryedition}, canonical_name |-> skyrim],
       [aliases |-> {fallout4},                       canonical_name |-> fallout4],
       [aliases |-> {falloutnewvegas, falloutnv},     canonical_name |-> falloutnv] >>

\* the loop over mappings.items(): the first alias set holding the name
LookupAlias(game_name_lower) ==
    LET hits == {i \in DOMAIN mappings : game_name_lower \in mappings[i].aliases}
    IN  IF hits = {}
        THEN game_name_lower
        ELSE mappings[CHOOSE i \in hits : \A j \in hits : i <= j].canonical_name

\* the alias lookup without the lower-casing of line 37
normalize_string_NoLower(x) == LookupAlias(x)

\* normalize_game_domain on a string
normalize_string(x) == LookupAlias(Lower(x))

\* normalize_game_domain on any value: .lower() raises on a non-string
normalize_game_domain(v) ==
    IF v.t = "str"
    THEN [raised |-> FALSE, s |-> normalize_string(v.s)]
    ELSE [raised |-> TRUE,  s |-> <<>>]

unknown_game == <<"u", "n", "k", "n", "o", "w", "n", "_", "g", "a", "m", "e">>

SkyrimSE == <<"S", "k", "y", "r", "i", "m", "S", "E">>

BaseNames ==
    { skyrimse, skyrimspecialedition, skyrim, skyrimlegendaryedition, fallout4,
      falloutnewvegas, falloutnv, unknown_game, <<"o", "b", "l", "i", "v", "i", "o", "n">>, <<"s", "k", "y", "r", "i", "m", "v", "r">>,
      <<"f", "a", "l", "l", "o", "u", "t", "3">>, <<>> }

NormInputs ==
    {StrV(s) : s \in UNION {{w, Upper(w), Capitalize(w), AltCase(w)} : w \in BaseNames}
                       \cup {SkyrimSE}}
    \cup {IntV(5), None}

NoResult == [raised |-> FALSE, s |-> <<"?">>]

NormInit ==
    /\ normIn \in NormInputs
    /\ normOut = NoResult
    /\ normAgain = NoResult
    /\ normPc = "input"

\* normalize_game_domain(x)
Normalize ==
    /\ normPc = "input"
    /\ normOut' = normalize_game_domain(normIn)
    /\ normPc' = "once"
    /\ UNCHANGED <<normIn, normAgain, rsVars, pjVars, dlVars, mainVars>>

\* normalize_game_domain(normalize_game_domain(x))
NormalizeAgain ==
    /\ normPc = "once"
    /\ ~normOut.raised
    /\ normAgain' = normalize_game_domain(StrV(normOut.s))
    /\ normPc' = "twice"
    /\ UNCHANGED <<normIn, normOut, rsVars, pjVars, dlVars, mainVars>>

NormIdle ==
    /\ normIn = None
    /\ normOut = NoResult
    /\ normAgain = NoResult
    /\ normPc = "off"

---------------------------------------------------------------------------
(* get_nexus_download_url *)

filedelivery_host == <<"f", "i", "l", "e", "d", "e", "l", "i", "v", "e", "r", "y", ".", "n", "e", "x", "u", "s", "m", "o", "d", "s", ".", "c", "o", "m">>

Direct_Download == <<"D", "i", "r", "e", "c", "t", " ", "D", "o", "w", "n", "l", "o", "a", "d">>

Primary_Download == <<"P", "r", "i", "m", "a", "r", "y", " ", "D", "o", "w", "n", "l", "o", "a", "d">>

uri_x == <<"h", "t", "t", "p", "s", ":", "/", "/", "c", "d", "n", ".", "e", "x", "a", "m", "p", "l", "e", "/", "x">>

uri_y == <<"h", "t", "t", "p", "s", ":", "/", "/", "f", "i", "l", "e", "d", "e", "l", "i", "v", "e", "r", "y", ".", "n", "e", "x", "u", "s", "m", "o", "d", "s", ".", "c", "o", "m", "/", "y">>

uri_z == <<"h", "t", "t", "p", "s", ":", "/", "/", "c", "d", "n", ".", "e", "x", "a", "m", "p", "l", "e", "/", "z">>

\* one element of the JSON list the API returns
Link(isDict, uri, name, short_name) ==
    [isDict |-> isDict, URI |-> uri, name |-> name, short_name |-> short_name]

\* line 96: the element is skipped with a warning
InvalidLink(link) ==
    ~link.isDict \/ link.URI.t = "absent" \/ link.name.t = "absent"

\* lines 95-105: the single pass over the list.  "exc" is the TypeError of
\* the substring test on a URI that is not a string.
RECURSIVE PreferredLink(_)
PreferredLink(links) ==
    IF links = <<>> THEN [kind |-> "none", uri |-> None]
    ELSE LET link == Head(links) IN
         IF InvalidLink(link) THEN PreferredLink(Tail(links))
         ELSE IF link.URI.t # "str" THEN [kind |-> "exc", uri |-> None]
         ELSE IF Contains(filedelivery_host, link.URI.s)
              THEN [kind |-> "ret", uri |-> link.URI]
         ELSE IF \/ Get(link.short_name) = StrV(Direct_Download)
                 \/ Get(link.name) = StrV(Primary_Download)
              THEN [kind |-> "ret", uri |-> link.URI]
         ELSE PreferredLink(Tail(links))

\* line 108: next(link['URI'] for link in ... if dict with a 'URI' key, None)
RECURSIVE FirstValidLink(_)
FirstValidLink(links) ==
    IF links = <<>> THEN None
    ELSE IF Head(links).isDict /\ Head(links).URI.t # "absent"
         THEN Head(links).URI
         ELSE FirstValidLink(Tail(links))

\* lines 94-114 on a non-empty list
SelectLink(links) ==
    LET p == PreferredLink(links) IN
    CASE p.kind = "ret" -> p.uri
      [] p.kind = "exc" -> None
      [] OTHER -> IF Truthy(FirstValidLink(links)) THEN FirstValidLink(links) ELSE None

\* What requests.get and response.json() give: net is "error" for a
\* RequestException; status_ok is response.ok; ctype_json is the test of
\* line 83; body is "list" (with links), "other" (JSON that is no list) or
\* "invalid" (no JSON at all).
Response(net, status_ok, ctype_json, body, links) ==
    [net |-> net, status_ok |-> status_ok, ctype_json |-> ctype_json,
     body |-> body, links |-> links]

\* lines 57-124.  Line 61 runs before the try: what it raises reaches the
\* caller.  Every path inside the try returns a URI or None.
get_nexus_download_url(game_id, response) ==
    IF normalize_game_domain(game_id).raised
    THEN [raised |-> TRUE, uri |-> None]
    ELSE [raised |-> FALSE,
          uri |-> IF response.net = "error" THEN None
                  ELSE IF ~response.status_ok THEN None
                  ELSE IF ~response.ctype_json THEN None
                  ELSE IF response.body = "invalid" THEN None
                  ELSE IF response.body # "list" \/ response.links = <<>> THEN None
                  ELSE SelectLink(response.links)]

MaxLinks == 3

LinkSet ==
    { Link(TRUE, StrV(uri_x), StrV(<<"O", "t", "h", "e", "r">>), Absent),
      Link(TRUE, StrV(uri_y), StrV(<<"M", "i", "r", "r", "o", "r">>), Absent),
      Link(TRUE, StrV(uri_z), StrV(Primary_Download), Absent),
      Link(TRUE, StrV(uri_x), StrV(<<"C", "D", "N">>), StrV(Direct_Download)),
      Link(TRUE, StrV(uri_z), Absent, Absent),
      Link(TRUE, Absent, StrV(<<"O", "t", "h", "e", "r">>), Absent),
      Link(TRUE, IntV(5), StrV(<<"O", "t", "h", "e", "r">>), Absent),
      Link(TRUE, StrV(<<>>), Absent, Absent),
      Link(FALSE, Absent, Absent, Absent) }

SeqsUpTo(S, n) == UNION {[1..k -> S] : k \in 0..n}

Responses ==
    {Response("ok", TRUE, TRUE, "list", l) : l \in SeqsUpTo(LinkSet, MaxLinks)}
    \cup {Response("error", FALSE, FALSE, "invalid", <<>>)}
    \cup {Response("ok", ok, ct, b, <<>>) :
             ok \in BOOLEAN, ct \in BOOLEAN, b \in {"other", "invalid"}}

NoUri == [raised |-> FALSE, uri |-> Absent]

ResolveInit ==
    /\ rsGame \in {StrV(SkyrimSE), IntV(5)}
    /\ rsResponse \in Responses
    /\ rsResult = NoUri
    /\ rsPc = "input"

\* one call get_nexus_download_url(game_id, mod_id, file_id, api_key)
Resolve ==
    /\ rsPc = "input"
    /\ rsResult' = get_nexus_download_url(rsGame, rsResponse)
    /\ rsPc' = "done"
    /\ UNCHANGED <<rsGame, rsResponse, normVars, pjVars, dlVars, mainVars>>

ResolveIdle ==
    /\ rsGame = None
    /\ rsResponse = Response("error", FALSE, FALSE, "invalid", <<>>)
    /\ rsResult = NoUri
    /\ rsPc = "off"

---------------------------------------------------------------------------
(* parse_wabbajack_json *)

NexusDownloader == <<"N", "e", "x", "u", "s", "D", "o", "w", "n", "l", "o", "a", "d", "e", "r">>

\* One element of "Archives".  isDict: the element is a JSON object.
\* state: "absent" (no "State" key), "null", or "dict"; type, ModID, FileID
\* and GameName are the keys of the State object, Name the archive's own.
Archive(isDict, state, type, ModID, FileID, GameName, Name) ==
    [isDict |-> isDict, state |-> state, type |-> type, ModID |-> ModID,
     FileID |-> FileID, GameName |-> GameName, Name |-> Name]

\* The manifest file.  file: "ok", "missing" (FileNotFoundError) or
\* "invalid" (JSONDecodeError); top: the JSON document is an "object" or a
\* "list"; archives: the "Archives" key is "absent", "null", a "list" or an
\* "int"; entries: the elements of the list.
Manifest(file, top, archives, entries) ==
    [file |-> file, top |-> top, archives |-> archives, entries |-> entries]

DownloadRequest(game_name, mod_id, file_id, filename) ==
    [game_domain |-> game_name, mod_id |-> mod_id, file_id |-> file_id,
     filename |-> filename]

\* line 205
FilterLower(filter_string) ==
    IF Truthy(filter_string) THEN StrV(Lower(filter_string.s)) ELSE None

\* line 218 with the test on file_id left out
HasEssentialData_NoFileId(mod_id, file_id, game_name, filename) ==
    Truthy(mod_id) /\ Truthy(game_name) /\ Truthy(filename)

\* line 218: mod_id and file_id and game_name and filename
HasEssentialData(mod_id, file_id, game_name, filename) ==
    Truthy(mod_id) /\ Truthy(file_id) /\ Truthy(game_name) /\ Truthy(filename)

\* lines 223-226 for a truthy filter_lower.  filename.lower() is evaluated
\* first; game_name.lower() only when the filename does not match.
FilterTest(filter_lower, game_name, filename) ==
    IF filename.t # "str" THEN "raise"
    ELSE IF Contains(filter_lower.s, Lower(filename.s)) THEN "keep"
    ELSE IF game_name.t # "str" THEN "raise"
    ELSE IF Contains(filter_lower.s, Lower(game_name.s)) THEN "keep"
    ELSE "skip"

\* lines 208-234, one iteration of the loop: "raise", "skip" or "emit"
ArchiveStep(archive, filter_lower) ==
    LET state_type == GetOr(archive.type, StrV(<<>>))
        mod_id     == Get(archive.ModID)
        file_id    == Get(archive.FileID)
        game_name  == Get(archive.GameName)
        filename   == Get(archive.Name)
        item       == DownloadRequest(game_name, mod_id, file_id, filename)
        no         == DownloadRequest(None, None, None, None)
    IN  IF ~archive.isDict THEN [kind |-> "raise", item |-> no]
        ELSE IF archive.state = "null" THEN [kind |-> "raise", item |-> no]
        ELSE IF archive.state = "absent" THEN [kind |-> "skip", item |-> no]
        ELSE IF state_type.t # "str" THEN [kind |-> "raise", item |-> no]
        ELSE IF ~Contains(NexusDownloader, state_type.s) THEN [kind |-> "skip", item |-> no]
        ELSE IF ~HasEssentialData(mod_id, file_id, game_name, filename)
             THEN [kind |-> "skip", item |-> no]
        ELSE IF ~Truthy(filter_lower) THEN [kind |-> "emit", item |-> item]
        ELSE LET t == FilterTest(filter_lower, game_name, filename) IN
             IF t = "keep" THEN [kind |-> "emit", item |-> item]
             ELSE [kind |-> t, item |-> no]

\* lines 207-236: the loop, appending to downloadable_files
RECURSIVE ExtractFrom(_, _, _)
ExtractFrom(entries, filter_lower, downloadable_files) ==
    IF entries = <<>> THEN [raised |-> FALSE, out |-> downloadable_files]
    ELSE LET r == ArchiveStep(Head(entries), filter_lower) IN
         CASE r.kind = "raise" -> [raised |-> TRUE, out |-> <<>>]
           [] r.kind = "emit" ->
                ExtractFrom(Tail(entries), filter_lower, Append(downloadable_files, r.item))
           [] OTHER -> ExtractFrom(Tail(entries), filter_lower, downloadable_files)

\* lines 167-236.  Lines 196-236 are outside the try of lines 183-194.
parse_wabbajack_json(manifest, filter_string) ==
    IF manifest.file # "ok" THEN [raised |-> FALSE, out |-> <<>>]
    ELSE IF manifest.top # "object" THEN [raised |-> TRUE, out |-> <<>>]
    ELSE IF manifest.archives \in {"absent", "null"} THEN [raised |-> FALSE, out |-> <<>>]
    ELSE IF manifest.archives # "list" THEN [raised |-> TRUE, out |-> <<>>]
    ELSE ExtractFrom(manifest.entries, FilterLower(filter_string), <<>>)

nexus_type == <<"N", "e", "x", "u", "s", "D", "o", "w", "n", "l", "o", "a", "d", "e", "r", ",", " ", "W", "a", "b", "b", "a", "j", "a", "c", "k", ".", "L", "i", "b">>

http_type == <<"H", "t", "t", "p", "D", "o", "w", "n", "l", "o", "a", "d", "e", "r", ",", " ", "W", "a", "b", "b", "a", "j", "a", "c", "k", ".", "L", "i", "b">>

alpha_7z == <<"A", "l", "p", "h", "a", ".", "7", "z">>

beta_zip == <<"b", "e", "t", "a", ".", "z", "i", "p">>

A_alpha == Archive(TRUE, "dict", StrV(nexus_type), IntV(1), IntV(2), StrV(SkyrimSE), StrV(alpha_7z))

A_beta == Archive(TRUE, "dict", StrV(nexus_type), IntV(3), IntV(4), StrV(fallout4), StrV(beta_zip))

A_noFileID == Archive(TRUE, "dict", StrV(nexus_type), IntV(1), Absent, StrV(SkyrimSE), StrV(alpha_7z))

A_intGame == Archive(TRUE, "dict", StrV(nexus_type), IntV(1), IntV(2), IntV(5), StrV(alpha_7z))

\* archives a manifest of the documented shape may hold
WellFormedArchives ==
    { A_alpha, A_beta, A_noFileID,
      Archive(TRUE, "dict", StrV(http_type), IntV(1), IntV(2), StrV(SkyrimSE), StrV(beta_zip)),
      Archive(TRUE, "dict", StrV(nexus_type), IntV(3), IntV(4), StrV(fallout4), Absent),
      Archive(TRUE, "dict", StrV(nexus_type), IntV(3), IntV(4), StrV(<<>>), StrV(beta_zip)),
      Archive(TRUE, "dict", StrV(nexus_type), IntV(0), IntV(4), StrV(fallout4), StrV(beta_zip)),
      Archive(TRUE, "dict", Absent, Absent, Absent, Absent, StrV(alpha_7z)),
      Archive(TRUE, "absent", Absent, Absent, Absent, Absent, StrV(alpha_7z)) }

\* archives of another shape
MalformedArchives ==
    { A_intGame,
      Archive(FALSE, "absent", Absent, Absent, Absent, Absent, Absent),
      Archive(TRUE, "null", Absent, Absent, Absent, Absent, StrV(alpha_7z)),
      Archive(TRUE, "dict", IntV(7), IntV(1), IntV(2), StrV(SkyrimSE), StrV(alpha_7z)),
      Archive(TRUE, "dict", StrV(nexus_type), IntV(1), IntV(2), StrV(SkyrimSE), IntV(9)) }

MaxArchives == 2

Filters == {None, StrV(<<>>), StrV(<<"S", "K", "Y", "R", "I", "M">>), StrV(<<"z", "i", "p">>), StrV(<<"n", "o", "m", "a", "t", "c", "h">>)}

Manifests ==
    {Manifest("ok", "object", "list", e) :
        e \in SeqsUpTo(WellFormedArchives \cup MalformedArchives, MaxArchives)}
    \cup {Manifest("missing", "object", "absent", <<>>),
          Manifest("invalid", "object", "absent", <<>>),
          Manifest("ok", "list", "absent", <<>>),
          Manifest("ok", "object", "absent", <<>>),
          Manifest("ok", "object", "null", <<>>),
          Manifest("ok", "object", "int", <<>>)}

NoParse == [raised |-> FALSE, out |-> <<>>]

ParseInit ==
    /\ pjManifest \in Manifests
    /\ pjFilter \in Filters
    /\ pjResult = NoParse
    /\ pjPc = "input"

\* one call parse_wabbajack_json(filepath, filter_string)
Parse ==
    /\ pjPc = "input"
    /\ pjResult' = parse_wabbajack_json(pjManifest, pjFilter)
    /\ pjPc' = "done"
    /\ UNCHANGED <<pjManifest, pjFilter, normVars, rsVars, dlVars, mainVars>>

ParseIdle ==
    /\ pjManifest = Manifest("missing", "object", "absent", <<>>)
    /\ pjFilter = None
    /\ pjResult = NoParse
    /\ pjPc = "off"

---------------------------------------------------------------------------
(* download_file *)

\* chunk_size of r.iter_content
ChunkSize == 8192

\* a path under DOWNLOAD_DIRECTORY: no file, or a file holding the chunks
\* written to it
NoFile == [exists |-> FALSE, data |-> <<>>]

File(data) == [exists |-> TRUE, data |-> data]

\* lines 147-149: the chunks written, keep-alive (empty) chunks left out
Written(body) == SelectSeq(body, LAMBDA chunk : chunk # 0)

\* What the network and the filesystem do during one call.
\*   kind: "mkdir_fail"      os.makedirs raises
\*         "conn_error"      requests.get raises a RequestException
\*         "bad_status"      raise_for_status raises HTTPError
\*         "bad_length"      content-length is no integer (ValueError)
\*         "open_fail"       open(local_filepath, 'wb') raises OSError
\*         "transport_error" iter_content raises a RequestException
\*         "io_error"        f.write raises OSError
\*         "complete"        the whole body is streamed
\*   body: the chunks received before the call ends
\*   remove_ok: whether os.remove succeeds if it is called
Outcome(kind, body, remove_ok) == [kind |-> kind, body |-> body, remove_ok |-> remove_ok]

\* lines 155-160: the handler of requests.exceptions.RequestException
OnRequestException(fs, path, remove_ok) ==
    IF fs[path].exists
    THEN IF remove_ok
         THEN [raised |-> FALSE, ret |-> FALSE, files |-> [fs EXCEPT ![path] = NoFile]]
         ELSE [raised |-> TRUE,  ret |-> FALSE, files |-> fs]
    ELSE [raised |-> FALSE, ret |-> FALSE, files |-> fs]

\* lines 127-163.  Lines 129-130 run before the try; os.remove runs inside
\* a handler: what they raise reaches the caller.  requests.get on a URL
\* that is no string raises a RequestException (MissingSchema).
download_file(fs, download_url, local_filename, outcome) ==
    IF outcome.kind = "mkdir_fail" \/ local_filename.t # "str"
    THEN [raised |-> TRUE, ret |-> FALSE, files |-> fs]
    ELSE LET path == local_filename.s
             opened == [fs EXCEPT ![path] = File(Written(outcome.body))]
         IN  CASE download_url.t # "str" \/ outcome.kind \in {"conn_error", "bad_status"} ->
                    OnRequestException(fs, path, outcome.remove_ok)
               [] outcome.kind \in {"bad_length", "open_fail"} ->
                    [raised |-> FALSE, ret |-> FALSE, files |-> fs]
               [] outcome.kind = "transport_error" ->
                    OnRequestException(opened, path, outcome.remove_ok)
               [] outcome.kind = "io_error" ->
                    [raised |-> FALSE, ret |-> FALSE, files |-> opened]
               [] OTHER ->
                    [raised |-> FALSE, ret |-> TRUE, files |-> opened]

FileNames == {alpha_7z, beta_zip}

Bodies == {<<>>, <<ChunkSize>>, <<ChunkSize, 0, 100>>}

Outcomes ==
    {Outcome(k, <<>>, TRUE) : k \in {"mkdir_fail", "bad_length", "open_fail"}}
    \cup {Outcome(k, <<>>, r) : k \in {"conn_error", "bad_status"}, r \in BOOLEAN}
    \cup {Outcome("transport_error", b, r) : b \in Bodies, r \in BOOLEAN}
    \cup {Outcome(k, b, TRUE) : k \in {"io_error", "complete"}, b \in Bodies}

MaxCalls == 2

NoDownload == [raised |-> FALSE, ret |-> FALSE]

DownloadInit ==
    /\ dlFiles \in [FileNames -> {NoFile, File(<<ChunkSize, 100>>)}]
    /\ dlBefore = dlFiles
    /\ dlName = None
    /\ dlOutcome = Outcome("complete", <<>>, TRUE)
    /\ dlResult = NoDownload
    /\ dlCalls = 0

\* one call download_file(download_url, local_filename)
Download ==
    /\ dlCalls < MaxCalls
    /\ \E name \in {StrV(f) : f \in FileNames} \cup {IntV(9)}, outcome \in Outcomes :
          LET r == download_file(dlFiles, StrV(uri_y), name, outcome) IN
          /\ dlBefore' = dlFiles
          /\ dlFiles' = r.files
          /\ dlName' = name
          /\ dlOutcome' = outcome
          /\ dlResult' = [raised |-> r.raised, ret |-> r.ret]
    /\ dlCalls' = dlCalls + 1
    /\ UNCHANGED <<normVars, rsVars, pjVars, mainVars>>

DownloadIdle ==
    /\ dlFiles = [f \in FileNames |-> NoFile]
    /\ dlBefore = dlFiles
    /\ dlName = None
    /\ dlOutcome = Outcome("complete", <<>>, TRUE)
    /\ dlResult = NoDownload
    /\ dlCalls = -1

---------------------------------------------------------------------------
(* console input: strip(), int() *)

Whitespace == {" ", "\t", "\n"}

RECURSIVE LStrip(_)
LStrip(s) == IF s # <<>> /\ Head(s) \in Whitespace THEN LStrip(Tail(s)) ELSE s

RECURSIVE RStrip(_)
RStrip(s) ==
    IF s # <<>> /\ s[Len(s)] \in Whitespace THEN RStrip(SubSeq(s, 1, Len(s) - 1)) ELSE s

\* str.strip()
Strip(s) == RStrip(LStrip(s))

Digits == <<"0", "1", "2", "3", "4", "5", "6", "7", "8", "9">>

IsDigit(c) == \E i \in DOMAIN Digits : Digits[i] = c

DigitValue(c) == (CHOOSE i \in DOMAIN Digits : Digits[i] = c) - 1

RECURSIVE Decimal(_)
Decimal(s) == IF s = <<>> THEN 0 ELSE 10 * Decimal(SubSeq(s, 1, Len(s) - 1)) + DigitValue(s[Len(s)])

\* int(s) on a string: an optional sign and decimal digits, surrounding
\* whitespace allowed; anything else is a ValueError (ok = FALSE)
ParseInt(s) ==
    LET t == Strip(s)
        signed == t # <<>> /\ Head(t) \in {"+", "-"}
        digits == IF signed THEN Tail(t) ELSE t
    IN  IF digits # <<>> /\ \A i \in DOMAIN digits : IsDigit(digits[i])
        THEN [ok |-> TRUE,
              n |-> IF signed /\ Head(t) = "-" THEN 0 - Decimal(digits) ELSE Decimal(digits)]
        ELSE [ok |-> FALSE, n |-> 0]

---------------------------------------------------------------------------
(* load_api_key and process exit *)

\* the key file: it may not exist; content is what f.read() returns
KeyFile(exists, content) == [exists |-> exists, content |-> content]

\* lines 14-30
load_api_key(keyfile) ==
    IF ~keyfile.exists THEN None
    ELSE IF Strip(keyfile.content) = <<>> THEN None
    ELSE StrV(Strip(keyfile.content))

\* exit() that would report success when given a message
ExitStatus_MessageIsSuccess(arg) ==
    CASE arg.t = "int" -> arg.n
      [] OTHER -> 0

\* The status the process ends with on exit(arg) (lines 263, 275, 344):
\* an integer is the status, None (also the end of the script) is 0, and
\* any other object, such as a message, is printed and the status is 1.
ExitStatus(arg) ==
    CASE arg.t = "none" -> 0
      [] arg.t = "int" -> arg.n
      [] OTHER -> 1

exit_message == <<"E", "x", "i", "t", "i", "n", "g", ".", " ", "P", "l", "e", "a", "s", "e", " ", "e", "n", "s", "u", "r", "e", " ", "y", "o", "u", "r", " ", "A", "P", "I", " ", "k", "e", "y", " ", "i", "s", " ", "c", "o", "r", "r", "e", "c", "t", "l", "y", " ", "s", "e", "t", " ", "u", "p", ".">>

---------------------------------------------------------------------------
(* __main__ *)

MaxPrompts == 3

KeyFiles ==
    { KeyFile(FALSE, <<>>), KeyFile(TRUE, <<>>), KeyFile(TRUE, <<" ", "\n">>),
      KeyFile(TRUE, <<"k", "e", "y", "\n">>) }

MainManifests ==
    { Manifest("ok", "object", "list", <<A_alpha, A_beta>>),
      Manifest("ok", "object", "list", <<A_alpha, A_alpha>>),
      Manifest("ok", "object", "list", <<A_intGame, A_beta>>),
      Manifest("ok", "object", "list", <<A_alpha>>),
      Manifest("ok", "object", "list", <<A_noFileID>>),
      Manifest("ok", "list", "absent", <<>>),
      Manifest("missing", "object", "absent", <<>>) }

MainFilters == {None, StrV(<<"Z", "I", "P">>)}

MainResponses ==
    { Response("error", FALSE, FALSE, "invalid", <<>>),
      Response("ok", TRUE, TRUE, "list",
               <<Link(TRUE, StrV(uri_y), StrV(<<"M", "i", "r", "r", "o", "r">>), Absent)>>) }

MainOutcomes ==
    { Outcome("mkdir_fail", <<>>, TRUE),
      Outcome("bad_status", <<>>, TRUE),
      Outcome("transport_error", <<ChunkSize>>, TRUE),
      Outcome("transport_error", <<ChunkSize>>, FALSE),
      Outcome("io_error", <<ChunkSize>>, TRUE),
      Outcome("complete", <<ChunkSize, 0, 100>>, TRUE) }

\* what the user types at the selection prompt; Absent is end of input
SelectionInputs ==
    { StrV(<<"q">>), StrV(<<" ", "Q", " ">>), StrV(<<"a", "l", "l">>), StrV(<<"A", "L", "L">>), StrV(<<"1">>),
      StrV(<<" ", "2">>), StrV(<<"0">>), StrV(<<"-", "1">>), StrV(<<"3">>), StrV(<<"x">>),
      StrV(<<>>), Absent }

ManualIds == {<<"1", "2", "3", "4", "5">>, <<" ", "6", "7", "8", "9", "0", " ">>, <<"a", "b", "c">>, <<"1", ".", "5">>, <<>>}

NoPick == [kind |-> "none", index |-> 0]

otherVars == <<normVars, rsVars, pjVars, dlVars>>

MainInit ==
    /\ pc = "start"
    /\ exitCode = -1
    /\ exitReason = "running"
    /\ downloadables = <<>>
    /\ selection = <<>>
    /\ queue = <<>>
    /\ attempted = <<>>
    /\ cycles = <<>>
    /\ files = [f \in FileNames |-> NoFile]
    /\ prompts = 0
    /\ raisedBy = "none"
    /\ allDone = FALSE
    /\ picked = NoPick

\* the process ends: exit(arg), or the end of the script (arg = None)
Exit(reason, arg) ==
    /\ pc' = "exited"
    /\ exitReason' = reason
    /\ exitCode' = ExitStatus(arg)

\* an exception reaches the interpreter: traceback, status 1
Crash(function) ==
    /\ pc' = "exited"
    /\ exitReason' = "uncaught"
    /\ exitCode' = 1
    /\ raisedBy' = function

\* lines 261-266
Start ==
    /\ pc = "start"
    /\ \E keyfile \in KeyFiles :
          IF Truthy(load_api_key(keyfile))
          THEN pc' = "mode" /\ UNCHANGED <<exitCode, exitReason>>
          ELSE Exit("nokey", StrV(exit_message))
    /\ UNCHANGED <<downloadables, selection, queue, attempted, cycles, files,
                   prompts, raisedBy, allDone, picked, otherVars>>

\* lines 268-279: --wabbajack-json is given
ManifestMode ==
    /\ pc = "mode"
    /\ \E manifest \in MainManifests, filter_string \in MainFilters :
          LET r == parse_wabbajack_json(manifest, filter_string) IN
          IF r.raised
          THEN Crash("parse_wabbajack_json") /\ UNCHANGED downloadables
          ELSE IF r.out = <<>>
          THEN Exit("empty", IntV(0)) /\ UNCHANGED <<downloadables, raisedBy>>
          ELSE /\ downloadables' = r.out
               /\ pc' = "prompt"
               /\ UNCHANGED <<exitCode, exitReason, raisedBy>>
    /\ UNCHANGED <<selection, queue, attempted, cycles, files, prompts, allDone,
                   picked, otherVars>>

\* lines 298-317, the body of the for loop for one item: the resolve and,
\* with a link, the download.  kind is "ok" or the function that raised.
Cycle(item, fs, response, outcome) ==
    LET r == get_nexus_download_url(item.game_domain, response) IN
    IF r.raised
    THEN [kind |-> "get_nexus_download_url", files |-> fs, downloaded |-> FALSE]
    ELSE IF ~Truthy(r.uri)
    THEN [kind |-> "ok", files |-> fs, downloaded |-> FALSE]
    ELSE LET d == download_file(fs, r.uri, item.filename, outcome) IN
         [kind |-> IF d.raised THEN "download_file" ELSE "ok",
          files |-> d.files, downloaded |-> TRUE]

\* lines 330-360: manual input mode
ManualMode ==
    /\ pc = "mode"
    /\ \E game_id \in {skyrimse, SkyrimSE}, mod_id_str \in ManualIds,
          file_id_str \in ManualIds, filename \in FileNames,
          response \in MainResponses, outcome \in MainOutcomes :
          IF ~ParseInt(Strip(mod_id_str)).ok \/ ~ParseInt(Strip(file_id_str)).ok
          THEN Exit("badid", IntV(1)) /\ UNCHANGED <<files, raisedBy, attempted, cycles>>
          ELSE LET item == DownloadRequest(StrV(Strip(game_id)),
                                           IntV(ParseInt(Strip(mod_id_str)).n),
                                           IntV(ParseInt(Strip(file_id_str)).n),
                                           StrV(Strip(filename)))
                   c == Cycle(item, files, response, outcome)
               IN  /\ files' = c.files
                   /\ attempted' = <<1>>
                   /\ cycles' = IF c.downloaded THEN <<1>> ELSE <<>>
                   /\ IF c.kind = "ok"
                      THEN Exit("manual_done", None) /\ UNCHANGED raisedBy
                      ELSE Crash(c.kind)
    /\ UNCHANGED <<downloadables, selection, queue, prompts, allDone, picked, otherVars>>

\* lines 281-296 and 323-327: one prompt and the reading of the answer
Prompt ==
    /\ pc = "prompt"
    /\ prompts < MaxPrompts
    /\ prompts' = prompts + 1
    /\ attempted' = <<>>
    /\ cycles' = <<>>
    /\ \E typed \in SelectionInputs :
          IF typed.t # "str"
          THEN \* EOFError, caught by "except Exception": the loop goes on
               /\ picked' = [kind |-> "invalid", index |-> 0]
               /\ UNCHANGED <<pc, exitCode, exitReason, selection, queue>>
          ELSE LET sel == Lower(Strip(typed.s))
                   parsed == ParseInt(sel)
                   selected_index == parsed.n - 1
               IN  /\ selection' = sel
                   /\ IF sel = <<"q">>
                      THEN /\ Exit("quit", None)
                           /\ picked' = [kind |-> "quit", index |-> 0]
                           /\ UNCHANGED queue
                      ELSE IF sel = <<"a", "l", "l">>
                      THEN /\ queue' = [i \in 1..Len(downloadables) |-> i]
                           /\ picked' = [kind |-> "all", index |-> 0]
                           /\ pc' = "batch"
                           /\ UNCHANGED <<exitCode, exitReason>>
                      ELSE IF parsed.ok /\ 0 <= selected_index
                                        /\ selected_index < Len(downloadables)
                      THEN /\ queue' = <<selected_index + 1>>
                           /\ picked' = [kind |-> "index", index |-> selected_index + 1]
                           /\ pc' = "batch"
                           /\ UNCHANGED <<exitCode, exitReason>>
                      ELSE /\ picked' = [kind |-> "invalid", index |-> 0]
                           /\ UNCHANGED <<pc, exitCode, exitReason, queue>>
    /\ UNCHANGED <<downloadables, files, raisedBy, allDone, otherVars>>

\* lines 298-327: the next item of selected_items and, after the last one,
\* the end of the loop body.  An exception raised by the resolve or the
\* download is caught by "except Exception" (line 325), which abandons the
\* remaining items and goes back to the prompt.
Item ==
    /\ pc = "batch"
    /\ queue # <<>>
    /\ \E response \in MainResponses, outcome \in MainOutcomes :
          LET i == Head(queue)
              c == Cycle(downloadables[i], files, response, outcome)
          IN  /\ attempted' = Append(attempted, i)
              /\ cycles' = IF c.downloaded THEN Append(cycles, i) ELSE cycles
              /\ files' = c.files
              /\ IF c.kind # "ok"
                 THEN /\ raisedBy' = c.kind
                      /\ queue' = <<>>
                      /\ pc' = "prompt"
                      /\ UNCHANGED <<exitCode, exitReason, allDone>>
                 ELSE /\ queue' = Tail(queue)
                      /\ UNCHANGED raisedBy
                      /\ IF Tail(queue) # <<>>
                         THEN UNCHANGED <<pc, exitCode, exitReason, allDone>>
                         ELSE IF selection # <<"a", "l", "l">>
                         THEN Exit("done", None) /\ UNCHANGED allDone
                         ELSE /\ pc' = "prompt"
                              /\ allDone' = TRUE
                              /\ UNCHANGED <<exitCode, exitReason>>
    /\ UNCHANGED <<downloadables, selection, prompts, picked, otherVars>>

MainIdle ==
    /\ pc = "off"
    /\ exitCode = -1
    /\ exitReason = "running"
    /\ downloadables = <<>>
    /\ selection = <<>>
    /\ queue = <<>>
    /\ attempted = <<>>
    /\ cycles = <<>>
    /\ files = [f \in FileNames |-> NoFile]
    /\ prompts = 0
    /\ raisedBy = "none"
    /\ allDone = FALSE
    /\ picked = NoPick

---------------------------------------------------------------------------
(* Specifications *)

Init == MainInit /\ NormIdle /\ ResolveIdle /\ ParseIdle /\ DownloadIdle

Next == Start \/ ManifestMode \/ ManualMode \/ Prompt \/ Item

\* the driver: key, mode, prompts and downloads
Spec == Init /\ [][Next]_vars

NormNext == Normalize \/ NormalizeAgain

InitNorm == NormInit /\ ResolveIdle /\ ParseIdle /\ DownloadIdle /\ MainIdle

\* normalize_game_domain over bounded inputs
SpecNorm == InitNorm /\ [][NormNext]_vars

InitResolve == ResolveInit /\ NormIdle /\ ParseIdle /\ DownloadIdle /\ MainIdle

\* get_nexus_download_url over bounded API responses
SpecResolve == InitResolve /\ [][Resolve]_vars

InitParse == ParseInit /\ NormIdle /\ ResolveIdle /\ DownloadIdle /\ MainIdle

\* parse_wabbajack_json over bounded manifests
SpecParse == InitParse /\ [][Parse]_vars

InitDownload == DownloadInit /\ NormIdle /\ ResolveIdle /\ ParseIdle /\ MainIdle

\* download_file called repeatedly on one downloads directory
SpecDownload == InitDownload /\ [][Download]_vars

---------------------------------------------------------------------------
(* Properties *)

\* a candidate of the documented shape {URI, name, short_name?}
WellFormedLink(link) ==
    /\ link.isDict
    /\ link.URI.t = "str"
    /\ link.name.t = "str"
    /\ link.short_name.t \in {"str", "absent"}

IsFiledelivery(link) == Contains(filedelivery_host, link.URI.s)

\* C1: for a non-empty list of well-formed candidates holding at least one
\* whose URI contains "filedelivery.nexusmods.com", get_nexus_download_url
\* returns the URI of the first such candidate, wherever it sits in the
\* list and whatever named candidates precede it.
C1_FiledeliveryPreferred ==
    LET links == rsResponse.links
        fd == {i \in DOMAIN links : IsFiledelivery(links[i])}
    IN  ( /\ rsPc = "done"
          /\ rsGame.t = "str"
          /\ rsResponse.net = "ok" /\ rsResponse.status_ok /\ rsResponse.ctype_json
          /\ rsResponse.body = "list"
          /\ links # <<>>
          /\ \A i \in DOMAIN links : WellFormedLink(links[i])
          /\ fd # {} )
        => /\ ~rsResult.raised
           /\ rsResult.uri = links[CHOOSE i \in fd : \A j \in fd : i <= j].URI

\* C2: once "all" is entered for N candidates, every one of the N gets one
\* resolve attempt, in manifest order, whatever happened to earlier items.
C2_AllAttemptsEveryItem ==
    (picked.kind = "all" /\ pc # "batch")
        => attempted = [i \in 1..Len(downloadables) |-> i]

\* C3: a download_file call that fails after it started writing (transport
\* error or IO error while streaming) returns False and leaves no file at
\* the target path.  Stated for the calls in which the file can be deleted.
C3_NoPartialFileAfterFailure ==
    ( /\ dlCalls > 0
      /\ dlName.t = "str"
      /\ dlOutcome.kind \in {"transport_error", "io_error"}
      /\ dlOutcome.remove_ok )
        => /\ dlResult = [raised |-> FALSE, ret |-> FALSE]
           /\ ~dlFiles[dlName.s].exists

\* C4: parse_wabbajack_json, get_nexus_download_url and download_file never
\* raise to their caller, and the process ends abnormally only on a missing
\* or empty key file or a non-integer id in manual mode.
C4_NothingRaises ==
    /\ raisedBy = "none"
    /\ (pc = "exited" /\ exitCode # 0) => exitReason \in {"nokey", "badid"}

\* C5 as stated: a run that ends (no exception escaping) ends with status
\* 0, the run without an API key included, except that a non-integer id in
\* manual mode gives status 1.
C5_ExitCodes ==
    (pc = "exited" /\ exitReason # "uncaught")
        => exitCode = IF exitReason = "badid" THEN 1 ELSE 0

\* C5 as amended: the status is 1 when the run stops for want of an API
\* key, when manual mode gets a non-integer id, and when an exception
\* reaches the interpreter; on every other end of a run it is 0.
C5_ExitCodesAmended ==
    pc = "exited"
        => exitCode = IF exitReason \in {"nokey", "badid", "uncaught"} THEN 1 ELSE 0

C5_Witness == pc = "exited" /\ exitReason = "nokey" /\ exitCode = 1

\* a manifest of the documented shape
WellFormedArchive(a) ==
    /\ a.isDict
    /\ a.state \in {"dict", "absent"}
    /\ a.type.t \in {"str", "absent"}
    /\ a.ModID.t \in {"int", "absent"}
    /\ a.FileID.t \in {"int", "absent"}
    /\ a.GameName.t \in {"str", "absent"}
    /\ a.Name.t \in {"str", "absent"}

WellFormedManifest(m) ==
    /\ m.file = "ok"
    /\ m.top = "object"
    /\ m.archives = "list"
    /\ \A i \in DOMAIN m.entries : WellFormedArchive(m.entries[i])

\* present and non-empty: not missing, not "", not 0
PresentNonEmpty(v) == v.t \in {"str", "int"} /\ v # StrV(<<>>) /\ v # IntV(0)

Qualifies(a, filter_string) ==
    /\ a.state = "dict"
    /\ a.type.t = "str"
    /\ Contains(NexusDownloader, a.type.s)
    /\ PresentNonEmpty(a.ModID)
    /\ PresentNonEmpty(a.FileID)
    /\ PresentNonEmpty(a.GameName)
    /\ PresentNonEmpty(a.Name)
    /\ filter_string.t = "str"
          => \/ Contains(Lower(filter_string.s), Lower(a.Name.s))
             \/ Contains(Lower(filter_string.s), Lower(a.GameName.s))

\* the k-th smallest element of a set of indices
Kth(Q, k) == CHOOSE i \in Q : Cardinality({j \in Q : j < i}) = k - 1

\* C6: for a well-formed manifest the list returned by parse_wabbajack_json
\* is the subsequence, in manifest order and with duplicates kept, of the
\* archives whose $type contains "NexusDownloader", whose four fields are
\* present and non-empty and which pass the filter, if one is given.
C6_ExtractedSubsequence ==
    LET entries == pjManifest.entries
        Q == {i \in DOMAIN entries : Qualifies(entries[i], pjFilter)}
        out == pjResult.out
    IN  (pjPc = "done" /\ WellFormedManifest(pjManifest))
        => /\ ~pjResult.raised
           /\ Len(out) = Cardinality(Q)
           /\ \A k \in 1..Cardinality(Q) :
                 LET a == entries[Kth(Q, k)] IN
                 out[k] = DownloadRequest(a.GameName, a.ModID, a.FileID, a.Name)

C6_Witness ==
    /\ pjPc = "done"
    /\ pjManifest.entries = <<A_noFileID, A_alpha>>
    /\ pjFilter = StrV(<<"S", "K", "Y", "R", "I", "M">>)
    /\ pjResult.out = <<DownloadRequest(StrV(SkyrimSE), IntV(1), IntV(2), StrV(alpha_7z))>>

\* C7: a valid index gives one resolve attempt, for that item, at most one
\* download, and then the run ends without another prompt; the quit token
\* ends the run with no resolve or download; any other input that is not
\* "all" gives no resolve or download and the prompt again.
C7_SelectionOutcomes ==
    /\ (picked.kind = "index" /\ pc # "batch")
          => /\ pc = "exited"
             /\ attempted = <<picked.index>>
             /\ Len(cycles) <= 1
    /\ picked.kind = "quit"
          => pc = "exited" /\ attempted = <<>> /\ cycles = <<>>
    /\ picked.kind = "invalid"
          => pc = "prompt" /\ attempted = <<>> /\ cycles = <<>>

\* the alias table of the specification
CanonicalSlug(lower) ==
    CASE lower \in {skyrimse, skyrimspecialedition} -> skyrimspecialedition
      [] lower \in {skyrim, skyrimlegendaryedition} -> skyrim
      [] lower = fallout4 -> fallout4
      [] lower \in {falloutnewvegas, falloutnv} -> falloutnv
      [] OTHER -> lower

\* C8: normalize_game_domain returns a result for every string, applying it
\* twice gives what applying it once gives, every canonical slug maps to
\* itself, matching ignores case ("SkyrimSE" gives "skyrimspecialedition")
\* and a string in no alias set comes back lower-cased.
C8_NormalizeIdempotent ==
    /\ (normPc \in {"once", "twice"} /\ normIn.t = "str")
          => /\ ~normOut.raised
             /\ normOut.s = CanonicalSlug(Lower(normIn.s))
             /\ normIn.s \in {skyrimspecialedition, skyrim, fallout4, falloutnv}
                   => normOut.s = normIn.s
             /\ normIn.s = SkyrimSE => normOut.s = skyrimspecialedition
             /\ normIn.s = unknown_game => normOut.s = unknown_game
    /\ normPc = "twice" => normAgain = normOut

C8_Witness ==
    /\ normPc = "twice"
    /\ normIn = StrV(SkyrimSE)
    /\ normOut.s = skyrimspecialedition
    /\ normAgain.s = skyrimspecialedition

\* C9: after "all" has processed its last candidate the run ends: no
\* further prompt, no further resolve or download.
C9_AllEndsRun == allDone => pc = "exited"

\* C10: a download_file call that fails before opening the local file (a
\* connection error or a bad HTTP status on the GET) leaves the downloads
\* directory as it was.
C10_FailureBeforeOpenKeepsFiles ==
    (dlCalls > 0 /\ dlName.t = "str" /\ dlOutcome.kind \in {"conn_error", "bad_status"})
        => dlFiles = dlBefore

=============================================================================
